---- MODULE Spec2Model ----
(***************************************************************************)
(* Model of dmora_concurrency.c: the Producer/Consumer ring buffer guarded *)
(* by Mutex and the condition variables QueueFull / QueueEmpty, the Dining *)
(* Philosophers table of fork semaphores, the Potion Brewers' agents,      *)
(* brokers and brewers, the thread-spawning loops of run_prodcon, and the  *)
(* command-line parsing of main.                                           *)
(*                                                                         *)
(* Every thread is modelled statement by statement: its position is a      *)
(* label named after the statement it is about to execute.                 *)
(***************************************************************************)
EXTENDS Integers, Sequences, FiniteSets, TLC

(***************************************************************************)
(* Bounds of the model.                                                    *)
(***************************************************************************)
\* Number of slots of PCQueue in the model (QUEUE_SIZE is 100 in the source).
QUEUE_SIZE == 2
\* Largest producer count / consumer count the command line supplies.
MaxProducers == 2
MaxConsumers == 2
\* Number of loop iterations all producers / all consumers start in a run.
MaxPush == 3
MaxPop == 2
\* Largest number of command-line arguments after the program name.
MaxArgs == 5

(***************************************************************************)
(* Program constants.                                                      *)
(***************************************************************************)
QUEUE_END == QUEUE_SIZE - 1
FORK_COUNT == 5
PHILOSOPHER_COUNT == 5
BREWER_COUNT == 3

VARIABLES
    \* ---- Producer/Consumer ----
    ProducerCount,          \* int ProducerCount (set from -n)
    ConsumerCount,          \* int ConsumerCount (set from -c)
    PCQueue,                \* int PCQueue[QUEUE_SIZE]
    Q_Head,                 \* int Q_Head
    Q_Tail,                 \* int Q_Tail
    Count,                  \* int Count
    Mutex,                  \* owner of pthread_mutex_t Mutex, or NoThread
    TerminationRequested,   \* sig_atomic_t TerminationRequested
    producer_pc,            \* position of each produce() thread
    consumer_pc,            \* position of each consume() thread
    pushed,                 \* history: values passed to queue_push, in order
    popped,                 \* history: values returned by queue_pop, in order
    lastIndex,              \* history: index of the last PCQueue[...] access
    \* ---- Dining Philosophers ----
    Forks,                  \* sem_t Forks[FORK_COUNT]: the semaphore values
    philosopher_pc,         \* position of each think_then_eat() thread
    \* ---- Potion Brewers ----
    agent_sem,              \* sem_t agent of run_brewers: the semaphore value
    flag,                   \* *ingredients[k].flag: the semaphore values
    is_available,           \* ingredients[k].is_available: the pointer stored
    agent_pc,               \* position of each release_ingredients() thread
    broker_pc,              \* position of each broker_ingredients() thread
    brewer_pc,              \* position of each brew() thread
    brewers_main,           \* position of run_brewers
    destroyed,              \* semaphores sem_destroy has been called on
    marked,                 \* history: ingredients a broker marked available
    broker_did,             \* history: what each broker did under Mutex
    \* ---- run_prodcon's spawning loops ----
    spawn_pc,               \* position of run_prodcon
    spawn_i,                \* the loop variable i whose address is passed
    producer_id,            \* my_id of each produce() thread
    consumer_id,            \* my_id of each consume() thread
    \* ---- main and parse_command_line ----
    argv,                   \* argv[1..argc-1]
    optind,                 \* getopt's optind, as an index into argv
    ProblemType,            \* enum Model ProblemType
    main_pc,                \* position of main
    getopt_reported,        \* history: the '?' cases getopt returned
    ran,                    \* history: the run_* function main called
    exit_status             \* main's return value

pcVars == <<ProducerCount, ConsumerCount, PCQueue, Q_Head, Q_Tail, Count, Mutex,
            producer_pc, consumer_pc, pushed, popped, lastIndex>>
dinerVars == <<Forks, philosopher_pc>>
brewerVars == <<agent_sem, flag, is_available, agent_pc, broker_pc,
                brewer_pc, brewers_main, destroyed, marked, broker_did>>
spawnVars == <<spawn_pc, spawn_i, producer_id, consumer_id>>
mainVars == <<argv, optind, ProblemType, main_pc, getopt_reported, ran, exit_status>>
\* What neither the Producer/Consumer threads nor the philosophers touch.
otherVars == <<brewerVars, spawnVars, mainVars>>
vars == <<pcVars, TerminationRequested, dinerVars, otherVars>>

NoThread == <<"none", 0>>
Producer(i) == <<"producer", i>>
Consumer(i) == <<"consumer", i>>

\* Thread slots; slot i holds a thread when i is at most the count given on
\* the command line, and stays "unborn" otherwise.
Producers == 1..MaxProducers
Consumers == 1..MaxConsumers

\* What a load from an address outside PCQueue may yield: a value some
\* producer produced, or one none ever produced.
OutOfBoundsValues == {-1, 0}
\* What a store to an address past PCQueue may hit: nothing the program
\* reads again, or one of the globals defined next to the array.
OutOfBoundsTargets == {"elsewhere", "Q_Head", "Q_Tail", "Count"}

(***************************************************************************)
(* Queue                                                                   *)
(***************************************************************************)
\* queue_full()
queue_full == (Q_Head = 0 /\ Q_Tail = QUEUE_END) \/ (Q_Tail = Q_Head - 1)

queue_empty_le == Q_Head <= 0

\* queue_empty()
queue_empty == Q_Head < 0

\* queue_push(value), called with Count already incremented to `count`.
queue_push(value, count) ==
    LET head == IF Q_Head < 0 THEN 0 ELSE Q_Head
        tail == IF Q_Head < 0 THEN 0
                ELSE IF Q_Head > 0 /\ Q_Tail = QUEUE_END THEN 0
                ELSE Q_Tail + 1
    IN  /\ lastIndex' = tail
        /\ pushed' = Append(pushed, value)
        /\ IF tail \in 0..QUEUE_END
           THEN /\ PCQueue' = [PCQueue EXCEPT ![tail] = value]
                /\ Q_Head' = head
                /\ Q_Tail' = tail
                /\ Count' = count
           ELSE \E target \in OutOfBoundsTargets :
                /\ PCQueue' = PCQueue
                /\ Q_Head' = IF target = "Q_Head" THEN value ELSE head
                /\ Q_Tail' = IF target = "Q_Tail" THEN value ELSE tail
                /\ Count' = IF target = "Count" THEN value ELSE count

\* queue_pop(): the value it returns is appended to `popped`.
queue_pop ==
    /\ lastIndex' = Q_Head
    /\ \E value \in (IF Q_Head \in 0..QUEUE_END THEN {PCQueue[Q_Head]}
                     ELSE OutOfBoundsValues) :
           popped' = Append(popped, value)
    /\ IF Q_Head = Q_Tail
       THEN Q_Head' = -1 /\ Q_Tail' = -1
       ELSE IF Q_Head = QUEUE_END
       THEN Q_Head' = 0 /\ Q_Tail' = Q_Tail
       ELSE Q_Head' = Q_Head + 1 /\ Q_Tail' = Q_Tail
    /\ UNCHANGED <<PCQueue, Count>>

(***************************************************************************)
(* pthread primitives                                                      *)
(***************************************************************************)
pthread_mutex_lock(t) == Mutex = NoThread /\ Mutex' = t

pthread_mutex_unlock(t) == Mutex' = NoThread

\* sig_handler: SIGINT sets the flag.
sig_handler ==
    /\ TerminationRequested = 0
    /\ TerminationRequested' = 1
    /\ UNCHANGED <<pcVars, dinerVars, otherVars>>

(***************************************************************************)
(* The parts of the program a run does not execute.                        *)
(***************************************************************************)
Ingredients == 0..(BREWER_COUNT - 1)
NoId == -1

\* agent_info[i].ingredient1/2 and broker_info[i].ingredient2 are never
\* assigned: reading one yields what the stack held before run_brewers was
\* called, a wild pointer, never the address of an ingredient that
\* run_brewers allocates afterwards.
Wild == -1

\* No run_brewers: its semaphores, ingredients and threads do not exist.
BrewersIdle ==
    /\ agent_sem = 0
    /\ flag = [k \in Ingredients |-> 0]
    /\ is_available = [k \in Ingredients |-> "null"]
    /\ agent_pc = [i \in Ingredients |-> "unborn"]
    /\ broker_pc = [i \in Ingredients |-> "unborn"]
    /\ brewer_pc = [i \in Ingredients |-> "unborn"]
    /\ brewers_main = [pc |-> "idle", i |-> 0]
    /\ destroyed = {}
    /\ marked = {}
    /\ broker_did = [i \in Ingredients |-> [did |-> "nothing", ingredient |-> i, was_marked |-> FALSE]]

\* The spawning loops of run_prodcon are over (or never ran).
SpawnIdle ==
    /\ spawn_pc = "idle"
    /\ spawn_i = 0
    /\ producer_id = [p \in Producers |-> NoId]
    /\ consumer_id = [c \in Consumers |-> NoId]

\* main has parsed its command line and called the run_* function of `model`.
MainDispatched(model) ==
    /\ argv = <<>>
    /\ optind = 1
    /\ ProblemType = model
    /\ main_pc = "running"
    /\ getopt_reported = {}
    /\ ran = model
    /\ exit_status = 0

(***************************************************************************)
(* produce()                                                               *)
(***************************************************************************)
\* Producers that have entered an iteration and not yet pushed.
ProducersBeforePush ==
    {p \in Producers : producer_pc[p] \in {"lock", "test", "wait", "relock", "push"}}

ConsumersBeforePop ==
    {c \in Consumers : consumer_pc[c] \in {"lock", "test", "wait", "relock", "pop"}}

\* while (!TerminationRequested) { random_sleep(...);
ProducerLoop(p) ==
    /\ producer_pc[p] = "loop"
    /\ IF TerminationRequested # 0
       THEN producer_pc' = [producer_pc EXCEPT ![p] = "done"]
       ELSE /\ Len(pushed) + Cardinality(ProducersBeforePush) < MaxPush
            /\ producer_pc' = [producer_pc EXCEPT ![p] = "lock"]
    /\ UNCHANGED <<ProducerCount, ConsumerCount, PCQueue, Q_Head, Q_Tail, Count,
                   Mutex, consumer_pc, pushed, popped, lastIndex,
                   TerminationRequested, dinerVars, otherVars>>

\* pthread_mutex_lock(&Mutex);
ProducerLock(p) ==
    /\ producer_pc[p] = "lock"
    /\ pthread_mutex_lock(Producer(p))
    /\ producer_pc' = [producer_pc EXCEPT ![p] = "test"]
    /\ UNCHANGED <<ProducerCount, ConsumerCount, PCQueue, Q_Head, Q_Tail, Count,
                   consumer_pc, pushed, popped, lastIndex,
                   TerminationRequested, dinerVars, otherVars>>

\* if (queue_full()) { pthread_cond_wait(&QueueFull, &Mutex): releases Mutex
\* and parks the thread, atomically.
ProducerTest(p) ==
    /\ producer_pc[p] = "test"
    /\ IF queue_full
       THEN /\ producer_pc' = [producer_pc EXCEPT ![p] = "wait"]
            /\ Mutex' = NoThread
       ELSE /\ producer_pc' = [producer_pc EXCEPT ![p] = "push"]
            /\ Mutex' = Mutex
    /\ UNCHANGED <<ProducerCount, ConsumerCount, PCQueue, Q_Head, Q_Tail, Count,
                   consumer_pc, pushed, popped, lastIndex,
                   TerminationRequested, dinerVars, otherVars>>

\* pthread_cond_wait may return without any pthread_cond_signal (POSIX
\* permits spurious wakeups); the thread then contends for Mutex.
ProducerSpuriousWakeup(p) ==
    /\ producer_pc[p] = "wait"
    /\ producer_pc' = [producer_pc EXCEPT ![p] = "relock"]
    /\ UNCHANGED <<ProducerCount, ConsumerCount, PCQueue, Q_Head, Q_Tail, Count,
                   Mutex, consumer_pc, pushed, popped, lastIndex,
                   TerminationRequested, dinerVars, otherVars>>

ProducerRelockNoMutex(p) ==
    /\ producer_pc[p] = "relock"
    /\ producer_pc' = [producer_pc EXCEPT ![p] = "push"]
    /\ UNCHANGED <<ProducerCount, ConsumerCount, PCQueue, Q_Head, Q_Tail, Count,
                   Mutex, consumer_pc, pushed, popped, lastIndex,
                   TerminationRequested, dinerVars, otherVars>>

\* pthread_cond_wait re-acquires Mutex before it returns; the statement
\* after the if is next, with no second queue_full() test.
ProducerRelock(p) ==
    /\ producer_pc[p] = "relock"
    /\ pthread_mutex_lock(Producer(p))
    /\ producer_pc' = [producer_pc EXCEPT ![p] = "push"]
    /\ UNCHANGED <<ProducerCount, ConsumerCount, PCQueue, Q_Head, Q_Tail, Count,
                   consumer_pc, pushed, popped, lastIndex,
                   TerminationRequested, dinerVars, otherVars>>

\* int value = Count++; queue_push(value);
ProducerPush(p) ==
    /\ producer_pc[p] = "push"
    /\ queue_push(Count, Count + 1)
    /\ producer_pc' = [producer_pc EXCEPT ![p] = "unlock"]
    /\ UNCHANGED <<ProducerCount, ConsumerCount, Mutex, consumer_pc, popped,
                   TerminationRequested, dinerVars, otherVars>>

\* pthread_mutex_unlock(&Mutex);
ProducerUnlock(p) ==
    /\ producer_pc[p] = "unlock"
    /\ pthread_mutex_unlock(Producer(p))
    /\ producer_pc' = [producer_pc EXCEPT ![p] = "signal"]
    /\ UNCHANGED <<ProducerCount, ConsumerCount, PCQueue, Q_Head, Q_Tail, Count,
                   consumer_pc, pushed, popped, lastIndex,
                   TerminationRequested, dinerVars, otherVars>>

\* A pthread_cond_signal(&QueueEmpty) that wakes no consumer.
ProducerSignalLost(p) ==
    /\ producer_pc[p] = "signal"
    /\ producer_pc' = [producer_pc EXCEPT ![p] = "loop"]
    /\ UNCHANGED <<ProducerCount, ConsumerCount, PCQueue, Q_Head, Q_Tail, Count,
                   Mutex, consumer_pc, pushed, popped, lastIndex,
                   TerminationRequested, dinerVars, otherVars>>

\* pthread_cond_signal(&QueueEmpty): wakes one consumer parked on QueueEmpty,
\* if there is one.
ProducerSignal(p) ==
    /\ producer_pc[p] = "signal"
    /\ producer_pc' = [producer_pc EXCEPT ![p] = "loop"]
    /\ IF \E c \in Consumers : consumer_pc[c] = "wait"
       THEN \E c \in Consumers :
                /\ consumer_pc[c] = "wait"
                /\ consumer_pc' = [consumer_pc EXCEPT ![c] = "relock"]
       ELSE consumer_pc' = consumer_pc
    /\ UNCHANGED <<ProducerCount, ConsumerCount, PCQueue, Q_Head, Q_Tail, Count,
                   Mutex, pushed, popped, lastIndex,
                   TerminationRequested, dinerVars, otherVars>>

(***************************************************************************)
(* consume()                                                               *)
(***************************************************************************)
ConsumerLoop(c) ==
    /\ consumer_pc[c] = "loop"
    /\ IF TerminationRequested # 0
       THEN consumer_pc' = [consumer_pc EXCEPT ![c] = "done"]
       ELSE /\ Len(popped) + Cardinality(ConsumersBeforePop) < MaxPop
            /\ consumer_pc' = [consumer_pc EXCEPT ![c] = "lock"]
    /\ UNCHANGED <<ProducerCount, ConsumerCount, PCQueue, Q_Head, Q_Tail, Count,
                   Mutex, producer_pc, pushed, popped, lastIndex,
                   TerminationRequested, dinerVars, otherVars>>

ConsumerLock(c) ==
    /\ consumer_pc[c] = "lock"
    /\ pthread_mutex_lock(Consumer(c))
    /\ consumer_pc' = [consumer_pc EXCEPT ![c] = "test"]
    /\ UNCHANGED <<ProducerCount, ConsumerCount, PCQueue, Q_Head, Q_Tail, Count,
                   producer_pc, pushed, popped, lastIndex,
                   TerminationRequested, dinerVars, otherVars>>

\* if (queue_empty()) { pthread_cond_wait(&QueueEmpty, &Mutex);
ConsumerTest(c) ==
    /\ consumer_pc[c] = "test"
    /\ IF queue_empty
       THEN /\ consumer_pc' = [consumer_pc EXCEPT ![c] = "wait"]
            /\ Mutex' = NoThread
       ELSE /\ consumer_pc' = [consumer_pc EXCEPT ![c] = "pop"]
            /\ Mutex' = Mutex
    /\ UNCHANGED <<ProducerCount, ConsumerCount, PCQueue, Q_Head, Q_Tail, Count,
                   producer_pc, pushed, popped, lastIndex,
                   TerminationRequested, dinerVars, otherVars>>

ConsumerSpuriousWakeup(c) ==
    /\ consumer_pc[c] = "wait"
    /\ consumer_pc' = [consumer_pc EXCEPT ![c] = "relock"]
    /\ UNCHANGED <<ProducerCount, ConsumerCount, PCQueue, Q_Head, Q_Tail, Count,
                   Mutex, producer_pc, pushed, popped, lastIndex,
                   TerminationRequested, dinerVars, otherVars>>

ConsumerRelock(c) ==
    /\ consumer_pc[c] = "relock"
    /\ pthread_mutex_lock(Consumer(c))
    /\ consumer_pc' = [consumer_pc EXCEPT ![c] = "pop"]
    /\ UNCHANGED <<ProducerCount, ConsumerCount, PCQueue, Q_Head, Q_Tail, Count,
                   producer_pc, pushed, popped, lastIndex,
                   TerminationRequested, dinerVars, otherVars>>

\* int value = queue_pop();
ConsumerPop(c) ==
    /\ consumer_pc[c] = "pop"
    /\ queue_pop
    /\ consumer_pc' = [consumer_pc EXCEPT ![c] = "unlock"]
    /\ UNCHANGED <<ProducerCount, ConsumerCount, Mutex, producer_pc, pushed,
                   TerminationRequested, dinerVars, otherVars>>

ConsumerUnlock(c) ==
    /\ consumer_pc[c] = "unlock"
    /\ pthread_mutex_unlock(Consumer(c))
    /\ consumer_pc' = [consumer_pc EXCEPT ![c] = "signal"]
    /\ UNCHANGED <<ProducerCount, ConsumerCount, PCQueue, Q_Head, Q_Tail, Count,
                   producer_pc, pushed, popped, lastIndex,
                   TerminationRequested, dinerVars, otherVars>>

\* pthread_cond_signal(&QueueFull);
ConsumerSignal(c) ==
    /\ consumer_pc[c] = "signal"
    /\ consumer_pc' = [consumer_pc EXCEPT ![c] = "loop"]
    /\ IF \E p \in Producers : producer_pc[p] = "wait"
       THEN \E p \in Producers :
                /\ producer_pc[p] = "wait"
                /\ producer_pc' = [producer_pc EXCEPT ![p] = "relock"]
       ELSE producer_pc' = producer_pc
    /\ UNCHANGED <<ProducerCount, ConsumerCount, PCQueue, Q_Head, Q_Tail, Count,
                   Mutex, pushed, popped, lastIndex,
                   TerminationRequested, dinerVars, otherVars>>

(***************************************************************************)
(* run_prodcon(): the state once every consume and produce thread exists.  *)
(* The globals have their static initial values: PCQueue is zero-filled,   *)
(* Q_Head = Q_Tail = 0, Count = 0.                                         *)
(***************************************************************************)
DinersIdle ==
    /\ Forks = [f \in 0..(FORK_COUNT - 1) |-> 0]
    /\ philosopher_pc = [i \in 0..(PHILOSOPHER_COUNT - 1) |-> "unborn"]

run_prodcon ==
    /\ ProducerCount \in 1..MaxProducers
    /\ ConsumerCount \in 1..MaxConsumers
    /\ PCQueue = [i \in 0..QUEUE_END |-> 0]
    /\ Q_Head = 0
    /\ Q_Tail = 0
    /\ Count = 0
    /\ Mutex = NoThread
    /\ TerminationRequested = 0
    /\ producer_pc = [p \in Producers |-> IF p <= ProducerCount THEN "loop" ELSE "unborn"]
    /\ consumer_pc = [c \in Consumers |-> IF c <= ConsumerCount THEN "loop" ELSE "unborn"]
    /\ pushed = <<>>
    /\ popped = <<>>
    /\ lastIndex = 0
    /\ DinersIdle
    /\ BrewersIdle
    /\ SpawnIdle
    /\ MainDispatched("ProdCon")

Init == run_prodcon

\* Every step of the Producer/Consumer run, spurious wakeups included.
Next ==
    \/ sig_handler
    \/ \E p \in Producers :
        \/ ProducerLoop(p)
        \/ ProducerLock(p)
        \/ ProducerTest(p)
        \/ ProducerSpuriousWakeup(p)
        \/ ProducerRelock(p)
        \/ ProducerPush(p)
        \/ ProducerUnlock(p)
        \/ ProducerSignal(p)
    \/ \E c \in Consumers :
        \/ ConsumerLoop(c)
        \/ ConsumerLock(c)
        \/ ConsumerTest(c)
        \/ ConsumerSpuriousWakeup(c)
        \/ ConsumerRelock(c)
        \/ ConsumerPop(c)
        \/ ConsumerUnlock(c)
        \/ ConsumerSignal(c)

Spec == Init /\ [][Next]_vars

\* The same run on a platform whose pthread_cond_wait returns only after a
\* pthread_cond_signal.
NextSignalled ==
    \/ sig_handler
    \/ \E p \in Producers :
        \/ ProducerLoop(p)
        \/ ProducerLock(p)
        \/ ProducerTest(p)
        \/ ProducerRelock(p)
        \/ ProducerPush(p)
        \/ ProducerUnlock(p)
        \/ ProducerSignal(p)
    \/ \E c \in Consumers :
        \/ ConsumerLoop(c)
        \/ ConsumerLock(c)
        \/ ConsumerTest(c)
        \/ ConsumerRelock(c)
        \/ ConsumerPop(c)
        \/ ConsumerUnlock(c)
        \/ ConsumerSignal(c)

SpecSignalled == Init /\ [][NextSignalled]_vars

(***************************************************************************)
(* Dining Philosophers                                                     *)
(***************************************************************************)
Philosophers == 0..(PHILOSOPHER_COUNT - 1)

forks_of_all_righties(my_id) ==
    [left |-> my_id, right |-> (my_id + 1) % FORK_COUNT]

\* think_then_eat: left_fork = my_id, right_fork = (my_id + 1) % FORK_COUNT,
\* swapped for philosopher 0.
forks_of(my_id) ==
    IF my_id = 0
    THEN [left |-> (my_id + 1) % FORK_COUNT, right |-> my_id]
    ELSE [left |-> my_id, right |-> (my_id + 1) % FORK_COUNT]

left_fork(i) == forks_of(i).left
right_fork(i) == forks_of(i).right

sem_wait_fork_without_blocking(f) ==
    Forks' = [Forks EXCEPT ![f] = IF @ > 0 THEN @ - 1 ELSE @]

\* sem_wait(&Forks[f]) returns once it has decremented a positive value.
sem_wait_fork(f) == Forks[f] > 0 /\ Forks' = [Forks EXCEPT ![f] = @ - 1]

sem_post_fork(f) == Forks' = [Forks EXCEPT ![f] = @ + 1]

\* while (!TerminationRequested) {
PhilosopherLoop(i) ==
    /\ philosopher_pc[i] = "loop"
    /\ philosopher_pc' = [philosopher_pc EXCEPT
                            ![i] = IF TerminationRequested # 0 THEN "done" ELSE "think"]
    /\ UNCHANGED <<pcVars, otherVars, TerminationRequested, Forks>>

\* think(my_id);
PhilosopherThink(i) ==
    /\ philosopher_pc[i] = "think"
    /\ philosopher_pc' = [philosopher_pc EXCEPT ![i] = "get_right"]
    /\ UNCHANGED <<pcVars, otherVars, TerminationRequested, Forks>>

\* get_forks: sem_wait(&Forks[right_fork]);
PhilosopherGetRight(i) ==
    /\ philosopher_pc[i] = "get_right"
    /\ sem_wait_fork(right_fork(i))
    /\ philosopher_pc' = [philosopher_pc EXCEPT ![i] = "get_left"]
    /\ UNCHANGED <<pcVars, otherVars, TerminationRequested>>

\* get_forks: sem_wait(&Forks[left_fork]);
PhilosopherGetLeft(i) ==
    /\ philosopher_pc[i] = "get_left"
    /\ sem_wait_fork(left_fork(i))
    /\ philosopher_pc' = [philosopher_pc EXCEPT ![i] = "eat"]
    /\ UNCHANGED <<pcVars, otherVars, TerminationRequested>>

\* eat(my_id);
PhilosopherEat(i) ==
    /\ philosopher_pc[i] = "eat"
    /\ philosopher_pc' = [philosopher_pc EXCEPT ![i] = "put_right"]
    /\ UNCHANGED <<pcVars, otherVars, TerminationRequested, Forks>>

PhilosopherPutRightWithoutPost(i) ==
    /\ philosopher_pc[i] = "put_right"
    /\ philosopher_pc' = [philosopher_pc EXCEPT ![i] = "put_left"]
    /\ UNCHANGED <<pcVars, otherVars, TerminationRequested, Forks>>

\* put_down_forks: sem_post(&Forks[right_fork]);
PhilosopherPutRight(i) ==
    /\ philosopher_pc[i] = "put_right"
    /\ sem_post_fork(right_fork(i))
    /\ philosopher_pc' = [philosopher_pc EXCEPT ![i] = "put_left"]
    /\ UNCHANGED <<pcVars, otherVars, TerminationRequested>>

PhilosopherPutLeftWithoutPost(i) ==
    /\ philosopher_pc[i] = "put_left"
    /\ philosopher_pc' = [philosopher_pc EXCEPT ![i] = "loop"]
    /\ UNCHANGED <<pcVars, otherVars, TerminationRequested, Forks>>

\* put_down_forks: sem_post(&Forks[left_fork]);
PhilosopherPutLeft(i) ==
    /\ philosopher_pc[i] = "put_left"
    /\ sem_post_fork(left_fork(i))
    /\ philosopher_pc' = [philosopher_pc EXCEPT ![i] = "loop"]
    /\ UNCHANGED <<pcVars, otherVars, TerminationRequested>>

\* The Producer/Consumer globals during a run of another model: never
\* touched, no produce or consume thread exists.
ProdConIdle ==
    /\ ProducerCount = 0
    /\ ConsumerCount = 0
    /\ PCQueue = [i \in 0..QUEUE_END |-> 0]
    /\ Q_Head = 0
    /\ Q_Tail = 0
    /\ Count = 0
    /\ Mutex = NoThread
    /\ producer_pc = [p \in Producers |-> "unborn"]
    /\ consumer_pc = [c \in Consumers |-> "unborn"]
    /\ pushed = <<>>
    /\ popped = <<>>
    /\ lastIndex = 0

\* run_diners: every fork semaphore initialised to 1, one thread per
\* philosopher, each given its own id[i].
run_diners ==
    /\ Forks = [f \in 0..(FORK_COUNT - 1) |-> 1]
    /\ philosopher_pc = [i \in Philosophers |-> "loop"]
    /\ TerminationRequested = 0
    /\ ProdConIdle
    /\ BrewersIdle
    /\ SpawnIdle
    /\ MainDispatched("Diners")

NextDiners ==
    \/ sig_handler
    \/ \E i \in Philosophers :
        \/ PhilosopherLoop(i)
        \/ PhilosopherThink(i)
        \/ PhilosopherGetRight(i)
        \/ PhilosopherGetLeft(i)
        \/ PhilosopherEat(i)
        \/ PhilosopherPutRight(i)
        \/ PhilosopherPutLeft(i)

SpecDiners == run_diners /\ [][NextDiners]_vars

\* One philosopher's next statement, whichever it is.
PhilosopherStep(i) ==
    \/ PhilosopherLoop(i)
    \/ PhilosopherThink(i)
    \/ PhilosopherGetRight(i)
    \/ PhilosopherGetLeft(i)
    \/ PhilosopherEat(i)
    \/ PhilosopherPutRight(i)
    \/ PhilosopherPutLeft(i)

\* The same run under a weakly fair scheduler: a philosopher thread whose
\* next statement stays executable executes it; think() and eat() return.
SpecDinersFair ==
    /\ run_diners
    /\ [][NextDiners]_vars
    /\ \A i \in Philosophers : WF_vars(PhilosopherStep(i))

(***************************************************************************)
(* Properties of the Producer/Consumer model                               *)
(***************************************************************************)
OccupiedCount == Len(pushed) - Len(popped)

Range(seq) == {seq[k] : k \in 1..Len(seq)}

IsPrefix(a, b) == Len(a) <= Len(b) /\ \A k \in 1..Len(a) : a[k] = b[k]

\* The slots between Q_Head and Q_Tail, the ones queue_pop still returns.
LiveSlots ==
    IF Q_Head < 0 THEN {}
    ELSE IF Q_Head <= Q_Tail THEN (Q_Head..Q_Tail) \cap (0..QUEUE_END)
    ELSE (Q_Head..QUEUE_END) \cup (0..Q_Tail)

\* C1: the occupied count, queue_push calls minus queue_pop calls so far,
\* never exceeds QUEUE_SIZE and never drops below 0.
C1_OccupiedCountInRange == OccupiedCount >= 0 /\ OccupiedCount <= QUEUE_SIZE

\* C2: a producer about to execute queue_push sees queue_full() false, and a
\* consumer about to execute queue_pop sees queue_empty() false, also after
\* being woken from pthread_cond_wait by a pthread_cond_signal.
C2_PushPopOnlyWhenAllowed ==
    /\ \A p \in Producers : producer_pc[p] = "push" => ~queue_full
    /\ \A c \in Consumers : consumer_pc[c] = "pop" => ~queue_empty

\* C3: with a single producer, the values returned by queue_pop, in order,
\* are a prefix of the values passed to queue_push, in order (FIFO).
C3_SingleProducerFifo == ProducerCount = 1 => IsPrefix(popped, pushed)

\* C4: every value returned by queue_pop was inserted before by a queue_push,
\* and no value is returned by more than one pop.
C4_NoPhantomNoDuplicate ==
    /\ Range(popped) \subseteq Range(pushed)
    /\ \A j, k \in 1..Len(popped) : popped[j] = popped[k] => j = k

\* C5: no value is lost: every value passed to queue_push and not yet
\* returned by a queue_pop is still stored in a slot queue_pop will return.
C5_NoValueLost ==
    \A v \in Range(pushed) \ Range(popped) :
        \E k \in LiveSlots : PCQueue[k] = v

\* C6: queue_full() and queue_empty() are never both true.
C6_FullEmptyExclusive == ~(queue_full /\ queue_empty)

\* C6 witness: the queue is full by the second disjunct of queue_full(), the
\* tail one slot behind the head, after the indices wrapped around.
C6_Witness == queue_full /\ Q_Head > 0 /\ Q_Tail = Q_Head - 1 /\ Len(popped) > 0

\* C7: queue_full() is true exactly when the number of values pushed and not
\* yet popped equals QUEUE_SIZE.
C7_FullIffCapacityStored == queue_full <=> (OccupiedCount = QUEUE_SIZE)

\* C8: every index used in PCQueue[Q_Tail] by queue_push and PCQueue[Q_Head]
\* by queue_pop lies in 0..QUEUE_END.
C8_IndexInRange == lastIndex >= 0 /\ lastIndex <= QUEUE_END

\* The statements of thread t between pthread_mutex_lock and
\* pthread_mutex_unlock: the ones that touch PCQueue, Q_Head, Q_Tail, Count.
InCriticalSection ==
    {Producer(p) : p \in {q \in Producers : producer_pc[q] \in {"test", "push", "unlock"}}}
    \cup
    {Consumer(c) : c \in {d \in Consumers : consumer_pc[d] \in {"test", "pop", "unlock"}}}

Parked ==
    {Producer(p) : p \in {q \in Producers : producer_pc[q] \in {"wait", "relock"}}}
    \cup
    {Consumer(c) : c \in {d \in Consumers : consumer_pc[d] \in {"wait", "relock"}}}

\* C9: a thread reads or writes PCQueue, Q_Head, Q_Tail, Count only while it
\* owns Mutex; at most one thread is between lock and unlock; a thread parked
\* in pthread_cond_wait does not own Mutex.
C9_MutexDiscipline ==
    /\ \A t \in InCriticalSection : Mutex = t
    /\ Cardinality(InCriticalSection) <= 1
    /\ \A t \in Parked : Mutex # t

\* C9 witness: a producer has been woken from pthread_cond_wait and waits for
\* Mutex while a consumer, owning Mutex, is about to execute queue_pop.
C9_Witness ==
    \E p \in Producers, c \in Consumers :
        /\ producer_pc[p] = "relock"
        /\ consumer_pc[c] = "pop"
        /\ Mutex = Consumer(c)

(***************************************************************************)
(* Properties of the Dining Philosophers model                             *)
(***************************************************************************)
\* Philosopher i is inside a sem_wait on a fork whose value is 0.
BlockedOnFork(i) ==
    \/ philosopher_pc[i] = "get_right" /\ Forks[right_fork(i)] = 0
    \/ philosopher_pc[i] = "get_left" /\ Forks[left_fork(i)] = 0

\* C10: in no reachable state are all philosophers blocked in sem_wait on a
\* fork: as long as some philosopher is still at the table, one of them can
\* take its next step.
C10_NoDeadlock ==
    /\ \E i \in Philosophers : ~BlockedOnFork(i)
    /\ (\E i \in Philosophers : philosopher_pc[i] # "done")
         => \E i \in Philosophers : philosopher_pc[i] # "done" /\ ~BlockedOnFork(i)

\* C10 witness: every philosopher has made its first fork attempt and all but
\* one of them are blocked in sem_wait.
C10_Witness ==
    /\ \A i \in Philosophers : philosopher_pc[i] \in {"get_right", "get_left", "eat"}
    /\ Cardinality({i \in Philosophers : BlockedOnFork(i)}) = PHILOSOPHER_COUNT - 1

\* Philosopher i holds fork f: its sem_wait on f has returned and its
\* sem_post on f has not happened yet.
HoldsFork(i, f) ==
    \/ f = right_fork(i) /\ philosopher_pc[i] \in {"get_left", "eat", "put_right"}
    \/ f = left_fork(i) /\ philosopher_pc[i] \in {"eat", "put_right", "put_left"}

Holders(f) == {i \in Philosophers : HoldsFork(i, f)}

AllPhilosophersLeft ==
    /\ \A i \in Philosophers : philosopher_pc[i] = "done"
    /\ \A f \in 0..(FORK_COUNT - 1) : Forks[f] = 1

\* C15: once TerminationRequested is set, every philosopher eventually leaves
\* the table with both its forks released, one blocked in sem_wait included.
C15_DinersLeaveAfterTermination == (TerminationRequested = 1) ~> AllPhilosophersLeft

\* C15 witness: termination has been requested while a philosopher holds its
\* first fork and is blocked in sem_wait on its second, held by a neighbour.
C15_Witness ==
    /\ TerminationRequested = 1
    /\ \E i \in Philosophers : philosopher_pc[i] = "get_left" /\ BlockedOnFork(i)

(***************************************************************************)
(* Starvation in the Dining Philosophers model                             *)
(***************************************************************************)
\* The statements of philosopher i that cannot block: the loop test,
\* think(), eat() and the two sem_post of put_down_forks.
PhilosopherRuns(i) ==
    \/ PhilosopherLoop(i)
    \/ PhilosopherThink(i)
    \/ PhilosopherEat(i)
    \/ PhilosopherPutRight(i)
    \/ PhilosopherPutLeft(i)

\* get_forks(): the sem_wait philosopher i is at, on its right fork or on
\* its left fork.
get_forks(i) == PhilosopherGetRight(i) \/ PhilosopherGetLeft(i)

\* The run under a scheduler that lets every non-blocking statement finish
\* and is strongly fair to get_forks: a philosopher whose awaited fork is
\* free again and again acquires it.
SpecDinersStrong ==
    /\ run_diners
    /\ [][NextDiners]_vars
    /\ \A i \in Philosophers : WF_vars(PhilosopherRuns(i)) /\ SF_vars(get_forks(i))

\* C25: a philosopher that starts get_forks eventually eats, unless
\* termination is requested.
C25_NoStarvation ==
    \A i \in Philosophers :
        (philosopher_pc[i] = "get_right") ~>
            (philosopher_pc[i] = "eat" \/ TerminationRequested = 1)

\* C25 witness: with no termination request, a philosopher that has started
\* get_forks is blocked on its first fork, which a neighbour holds while
\* that neighbour is itself blocked on its second fork.
C25_Witness ==
    /\ TerminationRequested = 0
    /\ \E i, j \in Philosophers :
        /\ philosopher_pc[i] = "get_right"
        /\ HoldsFork(j, right_fork(i))
        /\ philosopher_pc[j] = "get_left"
        /\ BlockedOnFork(j)

(***************************************************************************)
(* Termination of the Producer/Consumer model                              *)
(***************************************************************************)
\* Every produce and consume thread has returned, so that the pthread_join
\* calls of run_prodcon all return.
AllWorkersReturned ==
    /\ \A p \in Producers : producer_pc[p] \in {"done", "unborn"}
    /\ \A c \in Consumers : consumer_pc[c] \in {"done", "unborn"}

\* C14: once TerminationRequested is set, every producer and every consumer
\* eventually returns.  Stated on the states where no thread has a statement
\* left to execute: there, every thread must have returned.
C14_WorkersReturnAfterTermination ==
    (TerminationRequested = 1 /\ ~ENABLED NextSignalled) => AllWorkersReturned

(***************************************************************************)
(* Lost wakeups in the Producer/Consumer model                             *)
(***************************************************************************)
\* Every producer is parked in pthread_cond_wait(&QueueFull) and every
\* consumer in pthread_cond_wait(&QueueEmpty), none of them signalled.
AllParked ==
    /\ \A p \in Producers : producer_pc[p] \in {"wait", "unborn"}
    /\ \A c \in Consumers : consumer_pc[c] \in {"wait", "unborn"}

\* C23: with at least one producer and one consumer and no termination
\* request, the producers are never all parked on QueueFull while the
\* consumers are all parked on QueueEmpty.
C23_NotAllParked ==
    (ProducerCount >= 1 /\ ConsumerCount >= 1 /\ TerminationRequested = 0) => ~AllParked

\* C23 witness: with no termination request, every producer is parked on
\* QueueFull and every consumer is inside pthread_cond_wait on QueueEmpty,
\* one of them woken by the signal that follows the last push.
C23_Witness ==
    /\ TerminationRequested = 0
    /\ \A p \in Producers : producer_pc[p] \in {"wait", "unborn"}
    /\ \A c \in Consumers : consumer_pc[c] \in {"wait", "relock", "unborn"}
    /\ \E c \in Consumers : consumer_pc[c] = "relock"
    /\ queue_full

\* C24: with exactly one producer and one consumer, and pthread_cond_wait
\* returning only after a pthread_cond_signal, the producer about to execute
\* queue_push sees queue_full() false and the consumer about to execute
\* queue_pop sees queue_empty() false.
C24_SingleIfSufficesOneToOne ==
    (ProducerCount = 1 /\ ConsumerCount = 1) =>
        /\ producer_pc[1] = "push" => ~queue_full
        /\ consumer_pc[1] = "pop" => ~queue_empty

(***************************************************************************)
(* Potion Brewers: semaphores and pointers                                 *)
(***************************************************************************)
Agent(i) == <<"agent", i>>
Broker(i) == <<"broker", i>>
Brewer(i) == <<"brewer", i>>

\* The semaphores of run_brewers, as sem_destroy names them.
FlagSem(k) == <<"flag", k>>
AgentSem == <<"agent", 0>>


\* The process is running: run_brewers has neither returned to main, which
\* then returns and ends every thread, nor has the process crashed.
ProcessAlive == brewers_main.pc \in {"join", "destroy_flag", "destroy_agent"}

\* A segmentation fault ends the process.
crash == brewers_main' = [brewers_main EXCEPT !.pc = "crashed"]

\* sem_wait on ingredients[k].flag.  On a semaphore that sem_destroy has been
\* called on the behaviour is undefined: it still works as a semaphore, or the
\* call returns with an error that the callers ignore.
sem_wait_flag(k) ==
    \/ flag[k] > 0 /\ flag' = [flag EXCEPT ![k] = @ - 1]
    \/ FlagSem(k) \in destroyed /\ UNCHANGED flag

\* sem_post on ingredients[k].flag; undefined on a destroyed semaphore: it
\* still works, or fails without effect.
sem_post_flag(k) ==
    \/ flag' = [flag EXCEPT ![k] = @ + 1]
    \/ FlagSem(k) \in destroyed /\ UNCHANGED flag

\* sem_post(p->flag) through a wild pointer p: the process crashes, or the
\* call hits memory that is none of the semaphores.
sem_post_wild == UNCHANGED flag /\ (crash \/ UNCHANGED brewers_main)

\* sem_wait(&agent) and sem_post(&agent).
sem_wait_agent ==
    \/ agent_sem > 0 /\ agent_sem' = agent_sem - 1
    \/ AgentSem \in destroyed /\ UNCHANGED agent_sem

sem_post_agent ==
    \/ agent_sem' = agent_sem + 1
    \/ AgentSem \in destroyed /\ UNCHANGED agent_sem

\* The Producer/Consumer globals other than Mutex.
queueVars == <<ProducerCount, ConsumerCount, PCQueue, Q_Head, Q_Tail, Count,
               producer_pc, consumer_pc, pushed, popped, lastIndex>>

(***************************************************************************)
(* release_ingredients(): one agent thread                                 *)
(***************************************************************************)
\* while (!TerminationRequested)
AgentLoop(i) ==
    /\ ProcessAlive
    /\ agent_pc[i] = "loop"
    /\ agent_pc' = [agent_pc EXCEPT ![i] = IF TerminationRequested = 0 THEN "wait" ELSE "done"]
    /\ UNCHANGED <<pcVars, dinerVars, spawnVars, mainVars, TerminationRequested,
                   agent_sem, flag, is_available, broker_pc, brewer_pc,
                   brewers_main, destroyed, marked, broker_did>>

\* sem_wait(agent->agent)
AgentWait(i) ==
    /\ ProcessAlive
    /\ agent_pc[i] = "wait"
    /\ sem_wait_agent
    /\ agent_pc' = [agent_pc EXCEPT ![i] = "post1"]
    /\ UNCHANGED <<pcVars, dinerVars, spawnVars, mainVars, TerminationRequested,
                   flag, is_available, broker_pc, brewer_pc,
                   brewers_main, destroyed, marked, broker_did>>

\* SIGINT is delivered to this thread while it is blocked in sem_wait, and
\* the call is not restarted after sig_handler: it returns EINTR, which the
\* caller ignores.  signal() then has reset the disposition, so this happens
\* for one signal at most.
AgentInterrupted(i) ==
    /\ ProcessAlive
    /\ agent_pc[i] = "wait"
    /\ TerminationRequested = 0
    /\ TerminationRequested' = 1
    /\ agent_pc' = [agent_pc EXCEPT ![i] = "post1"]
    /\ UNCHANGED <<pcVars, dinerVars, spawnVars, mainVars,
                   agent_sem, flag, is_available, broker_pc, brewer_pc,
                   brewers_main, destroyed, marked, broker_did>>

\* sem_post(agent->ingredient1->flag), through the wild pointer
\* agent_info[i].ingredient1.
AgentPost1(i) ==
    /\ ProcessAlive
    /\ agent_pc[i] = "post1"
    /\ sem_post_wild
    /\ agent_pc' = [agent_pc EXCEPT ![i] = "post2"]
    /\ UNCHANGED <<pcVars, dinerVars, spawnVars, mainVars, TerminationRequested,
                   agent_sem, is_available, broker_pc, brewer_pc,
                   destroyed, marked, broker_did>>

\* sem_post(agent->ingredient2->flag), through the wild pointer
\* agent_info[i].ingredient2.
AgentPost2(i) ==
    /\ ProcessAlive
    /\ agent_pc[i] = "post2"
    /\ sem_post_wild
    /\ agent_pc' = [agent_pc EXCEPT ![i] = "loop"]
    /\ UNCHANGED <<pcVars, dinerVars, spawnVars, mainVars, TerminationRequested,
                   agent_sem, is_available, broker_pc, brewer_pc,
                   destroyed, marked, broker_did>>

(***************************************************************************)
(* broker_ingredients(): one broker thread, which runs its body once       *)
(***************************************************************************)
\* run_brewers assigns broker_info[i].ingredient1 twice: the second
\* assignment, &ingredients[(i + 2) % 3], is the one that stays.
broker_ingredient1(i) == (i + 2) % BREWER_COUNT

\* A pointer is true in a condition when it is not NULL.
truthy(pointer) == pointer # "null"

\* sem_wait(broker->broker_ingredient->flag)
BrokerWait(i) ==
    /\ ProcessAlive
    /\ broker_pc[i] = "wait"
    /\ sem_wait_flag(i)
    /\ broker_pc' = [broker_pc EXCEPT ![i] = "lock"]
    /\ UNCHANGED <<pcVars, dinerVars, spawnVars, mainVars, TerminationRequested,
                   agent_sem, is_available, agent_pc, brewer_pc,
                   brewers_main, destroyed, marked, broker_did>>

\* SIGINT interrupts the sem_wait of this thread (see AgentInterrupted).
BrokerInterrupted(i) ==
    /\ ProcessAlive
    /\ broker_pc[i] = "wait"
    /\ TerminationRequested = 0
    /\ TerminationRequested' = 1
    /\ broker_pc' = [broker_pc EXCEPT ![i] = "lock"]
    /\ UNCHANGED <<pcVars, dinerVars, spawnVars, mainVars,
                   agent_sem, flag, is_available, agent_pc, brewer_pc,
                   brewers_main, destroyed, marked, broker_did>>

\* pthread_mutex_lock(broker->mutex)
BrokerLock(i) ==
    /\ ProcessAlive
    /\ broker_pc[i] = "lock"
    /\ pthread_mutex_lock(Broker(i))
    /\ broker_pc' = [broker_pc EXCEPT ![i] = "test"]
    /\ UNCHANGED <<queueVars, dinerVars, spawnVars, mainVars, TerminationRequested,
                   agent_sem, flag, is_available, agent_pc, brewer_pc,
                   brewers_main, destroyed, marked, broker_did>>

\* ingredient->is_available = false; sem_post(ingredient->flag);
broker_clears(i, k) ==
    /\ is_available' = [is_available EXCEPT ![k] = "null"]
    /\ sem_post_flag(k)
    /\ broker_did' = [broker_did EXCEPT ![i] =
            [did |-> "cleared", ingredient |-> k, was_marked |-> k \in marked]]
    /\ marked' = marked \ {k}
    /\ UNCHANGED brewers_main

\* broker_ingredient->is_available = (bool *) true;
broker_marks(i) ==
    /\ is_available' = [is_available EXCEPT ![i] = "true"]
    /\ broker_did' = [broker_did EXCEPT ![i] =
            [did |-> "marked", ingredient |-> i, was_marked |-> i \in marked]]
    /\ marked' = marked \cup {i}
    /\ UNCHANGED <<flag, brewers_main>>

\* if (ingredient1->is_available) ... else if (ingredient2->is_available) ...
\* else ...  The conditions test the pointers.  ingredient2 is wild: reading
\* through it crashes, or yields a pointer that is NULL or not; the store and
\* the sem_post through it then hit memory outside the ingredients.
BrokerTest(i) ==
    /\ ProcessAlive
    /\ broker_pc[i] = "test"
    /\ Mutex = Broker(i)
    /\ IF truthy(is_available[broker_ingredient1(i)])
       THEN broker_clears(i, broker_ingredient1(i))
       ELSE \/ crash /\ UNCHANGED <<flag, is_available, marked, broker_did>>
            \/ /\ broker_did' = [broker_did EXCEPT ![i] =
                     [did |-> "cleared", ingredient |-> Wild, was_marked |-> FALSE]]
               /\ UNCHANGED <<flag, is_available, marked, brewers_main>>
            \/ broker_marks(i)
    /\ broker_pc' = [broker_pc EXCEPT ![i] = "unlock"]
    /\ UNCHANGED <<pcVars, dinerVars, spawnVars, mainVars, TerminationRequested,
                   agent_sem, agent_pc, brewer_pc, destroyed>>

\* pthread_mutex_unlock(broker->mutex), and the thread returns.
BrokerUnlock(i) ==
    /\ ProcessAlive
    /\ broker_pc[i] = "unlock"
    /\ pthread_mutex_unlock(Broker(i))
    /\ broker_pc' = [broker_pc EXCEPT ![i] = "done"]
    /\ UNCHANGED <<queueVars, dinerVars, spawnVars, mainVars, TerminationRequested,
                   agent_sem, flag, is_available, agent_pc, brewer_pc,
                   brewers_main, destroyed, marked, broker_did>>

(***************************************************************************)
(* brew(): one brewer thread                                               *)
(***************************************************************************)
\* while (!TerminationRequested)
BrewerLoop(i) ==
    /\ ProcessAlive
    /\ brewer_pc[i] = "loop"
    /\ brewer_pc' = [brewer_pc EXCEPT ![i] = IF TerminationRequested = 0 THEN "wait" ELSE "done"]
    /\ UNCHANGED <<pcVars, dinerVars, spawnVars, mainVars, TerminationRequested,
                   agent_sem, flag, is_available, agent_pc, broker_pc,
                   brewers_main, destroyed, marked, broker_did>>

\* sem_wait(brewer->ingredient->flag)
BrewerWait(i) ==
    /\ ProcessAlive
    /\ brewer_pc[i] = "wait"
    /\ sem_wait_flag(i)
    /\ brewer_pc' = [brewer_pc EXCEPT ![i] = "post_agent"]
    /\ UNCHANGED <<pcVars, dinerVars, spawnVars, mainVars, TerminationRequested,
                   agent_sem, is_available, agent_pc, broker_pc,
                   brewers_main, destroyed, marked, broker_did>>

\* SIGINT interrupts the sem_wait of this thread (see AgentInterrupted).
BrewerInterrupted(i) ==
    /\ ProcessAlive
    /\ brewer_pc[i] = "wait"
    /\ TerminationRequested = 0
    /\ TerminationRequested' = 1
    /\ brewer_pc' = [brewer_pc EXCEPT ![i] = "post_agent"]
    /\ UNCHANGED <<pcVars, dinerVars, spawnVars, mainVars,
                   agent_sem, flag, is_available, agent_pc, broker_pc,
                   brewers_main, destroyed, marked, broker_did>>

\* sem_post(brewer->agent)
BrewerPostAgent(i) ==
    /\ ProcessAlive
    /\ brewer_pc[i] = "post_agent"
    /\ sem_post_agent
    /\ brewer_pc' = [brewer_pc EXCEPT ![i] = "loop"]
    /\ UNCHANGED <<pcVars, dinerVars, spawnVars, mainVars, TerminationRequested,
                   flag, is_available, agent_pc, broker_pc,
                   brewers_main, destroyed, marked, broker_did>>

(***************************************************************************)
(* run_brewers()                                                           *)
(***************************************************************************)
\* pthread_join(brewers[i], NULL)
BrewersJoin ==
    /\ brewers_main.pc = "join"
    /\ brewer_pc[brewers_main.i] = "done"
    /\ brewers_main' = [brewers_main EXCEPT !.pc = "destroy_flag"]
    /\ UNCHANGED <<pcVars, dinerVars, spawnVars, mainVars, TerminationRequested,
                   agent_sem, flag, is_available, agent_pc, broker_pc,
                   brewer_pc, destroyed, marked, broker_did>>

\* sem_destroy(ingredients[i].flag); i++
BrewersDestroyFlag ==
    /\ brewers_main.pc = "destroy_flag"
    /\ destroyed' = destroyed \cup {FlagSem(brewers_main.i)}
    /\ brewers_main' =
        [pc |-> IF brewers_main.i + 1 < BREWER_COUNT THEN "join" ELSE "destroy_agent",
         i |-> brewers_main.i + 1]
    /\ UNCHANGED <<pcVars, dinerVars, spawnVars, mainVars, TerminationRequested,
                   agent_sem, flag, is_available, agent_pc, broker_pc,
                   brewer_pc, marked, broker_did>>

\* sem_destroy(&agent), and run_brewers returns.
BrewersDestroyAgent ==
    /\ brewers_main.pc = "destroy_agent"
    /\ destroyed' = destroyed \cup {AgentSem}
    /\ brewers_main' = [brewers_main EXCEPT !.pc = "returned"]
    /\ UNCHANGED <<pcVars, dinerVars, spawnVars, mainVars, TerminationRequested,
                   agent_sem, flag, is_available, agent_pc, broker_pc,
                   brewer_pc, marked, broker_did>>

\* run_brewers up to its joining loop: the agent semaphore and every flag
\* initialised to 0, every is_available pointing at a malloc'd bool, and the
\* nine threads created.
run_brewers ==
    /\ agent_sem = 0
    /\ flag = [k \in Ingredients |-> 0]
    /\ is_available = [k \in Ingredients |-> "heap"]
    /\ agent_pc = [i \in Ingredients |-> "loop"]
    /\ broker_pc = [i \in Ingredients |-> "wait"]
    /\ brewer_pc = [i \in Ingredients |-> "loop"]
    /\ brewers_main = [pc |-> "join", i |-> 0]
    /\ destroyed = {}
    /\ marked = {}
    /\ broker_did = [i \in Ingredients |-> [did |-> "nothing", ingredient |-> i, was_marked |-> FALSE]]
    /\ TerminationRequested = 0
    /\ ProdConIdle
    /\ DinersIdle
    /\ SpawnIdle
    /\ MainDispatched("Brewers")

NextBrewers ==
    \/ sig_handler
    \/ BrewersJoin
    \/ BrewersDestroyFlag
    \/ BrewersDestroyAgent
    \/ \E i \in Ingredients :
        \/ AgentLoop(i)
        \/ AgentWait(i)
        \/ AgentInterrupted(i)
        \/ AgentPost1(i)
        \/ AgentPost2(i)
        \/ BrokerWait(i)
        \/ BrokerInterrupted(i)
        \/ BrokerLock(i)
        \/ BrokerTest(i)
        \/ BrokerUnlock(i)
        \/ BrewerLoop(i)
        \/ BrewerWait(i)
        \/ BrewerInterrupted(i)
        \/ BrewerPostAgent(i)

SpecBrewers == run_brewers /\ [][NextBrewers]_vars

(***************************************************************************)
(* Claims about the Potion Brewers model                                   *)
(***************************************************************************)
\* The ingredients whose is_available the broker code finds true.
AvailableAsTested == {k \in Ingredients : truthy(is_available[k])}

\* C12: whenever a thread holds the shared lock, at most one of the three
\* ingredients has its availability, as the broker code tests it, true.
C12_AtMostOneAvailable ==
    (\E i \in Ingredients : Mutex = Broker(i)) => Cardinality(AvailableAsTested) <= 1

\* C13: a thread about to execute sem_post on an ingredient's flag holds
\* Mutex.  The agents are at such a statement at post1 and post2, the brokers
\* inside their test; the brewers post only the agent semaphore.
C13_FlagPostedUnderMutex ==
    /\ \A i \in Ingredients : agent_pc[i] \in {"post1", "post2"} => Mutex = Agent(i)
    /\ \A i \in Ingredients : broker_pc[i] = "test" => Mutex = Broker(i)

\* Every agent, broker and brewer thread has returned.
AllNineReturned ==
    \A i \in Ingredients :
        agent_pc[i] = "done" /\ broker_pc[i] = "done" /\ brewer_pc[i] = "done"

\* C16: a semaphore is destroyed, and run_brewers returns, only after every
\* one of the nine threads has returned.
C16_DestroyAfterAllReturned ==
    (destroyed # {} \/ brewers_main.pc = "returned") => AllNineReturned

\* C20: what a broker has done under the lock is one of: (a) cleared and
\* posted one of the two other ingredients, which a broker had marked
\* available; (b) marked its own ingredient, when neither of the two others
\* was marked available.  The two others are distinct from its own.
C20_BrokerPairsMarkedIngredients ==
    \A i \in Ingredients :
        \/ broker_did[i].did = "nothing"
        \/ /\ broker_did[i].did = "cleared"
           /\ broker_did[i].ingredient \in Ingredients \ {i}
           /\ broker_did[i].was_marked
        \/ /\ broker_did[i].did = "marked"
           /\ broker_did[i].ingredient = i

\* The flags after one sem_post on the flag of ingredient k.
posted(k) == [flag EXCEPT ![k] = @ + 1]

\* C21: each sem_post an agent executes after passing sem_wait(agent) posts
\* the flag of one of the two ingredients other than its own: the first
\* (i + 1) % 3 and the second (i + 2) % 3, the pair run_brewers computes.
C21_AgentPostsTheTwoOthers ==
    [][\A i \in Ingredients :
          /\ (agent_pc[i] = "post1" /\ agent_pc'[i] = "post2") =>
                flag' = posted((i + 1) % BREWER_COUNT)
          /\ (agent_pc[i] = "post2" /\ agent_pc'[i] = "loop") =>
                flag' = posted((i + 2) % BREWER_COUNT)]_vars

\* Thread i of each kind is blocked in its sem_wait: the semaphore it waits
\* on is 0 and has not been destroyed.
AgentBlocked(i) == agent_pc[i] = "wait" /\ agent_sem = 0 /\ AgentSem \notin destroyed
BrokerBlocked(i) == broker_pc[i] = "wait" /\ flag[i] = 0 /\ FlagSem(i) \notin destroyed
BrewerBlocked(i) == brewer_pc[i] = "wait" /\ flag[i] = 0 /\ FlagSem(i) \notin destroyed

\* C22: with no termination request, there is no state in which every agent,
\* every broker and every brewer is blocked in sem_wait.
C22_NotAllBlocked ==
    ~(/\ TerminationRequested = 0
      /\ \A i \in Ingredients : AgentBlocked(i) /\ BrokerBlocked(i) /\ BrewerBlocked(i))

(***************************************************************************)
(* run_prodcon(): the spawning loops, and the first statement of produce() *)
(* and consume(), which reads my_id through id.  Every thread is given the *)
(* address of the loop variable i of the loop that creates it.  What the   *)
(* threads do after that statement is the subject of Spec.                 *)
(***************************************************************************)
\* The Producer/Consumer globals other than the threads' positions.
queueState == <<ProducerCount, ConsumerCount, PCQueue, Q_Head, Q_Tail, Count, Mutex,
                pushed, popped, lastIndex>>

\* What dereferencing id yields once the loop variable it points to is out of
\* scope: whatever the loops that follow have left in that stack slot.
DanglingValues == 0..(IF MaxProducers > MaxConsumers THEN MaxProducers ELSE MaxConsumers)

\* for (int i = 0; i < ConsumerCount; ...), and int i = 0 of the next loop
\* once this one is over.
SpawnConsumersTest ==
    /\ spawn_pc = "consumers_test"
    /\ IF spawn_i < ConsumerCount
       THEN spawn_pc' = "consumers_create" /\ UNCHANGED spawn_i
       ELSE spawn_pc' = "producers_test" /\ spawn_i' = 0
    /\ UNCHANGED <<pcVars, dinerVars, brewerVars, mainVars, TerminationRequested,
                   producer_id, consumer_id>>

\* pthread_create(&consumers[i], NULL, consume, (void *) &i)
SpawnConsumersCreate ==
    /\ spawn_pc = "consumers_create"
    /\ consumer_pc' = [consumer_pc EXCEPT ![spawn_i + 1] = "start"]
    /\ spawn_pc' = "consumers_incr"
    /\ UNCHANGED <<queueState, producer_pc, dinerVars, brewerVars, mainVars,
                   TerminationRequested, spawn_i, producer_id, consumer_id>>

\* i++
SpawnConsumersIncr ==
    /\ spawn_pc = "consumers_incr"
    /\ spawn_i' = spawn_i + 1
    /\ spawn_pc' = "consumers_test"
    /\ UNCHANGED <<pcVars, dinerVars, brewerVars, mainVars, TerminationRequested,
                   producer_id, consumer_id>>

\* for (int i = 0; i < ProducerCount; ...); after it come the joining loops.
SpawnProducersTest ==
    /\ spawn_pc = "producers_test"
    /\ spawn_pc' = IF spawn_i < ProducerCount THEN "producers_create" ELSE "joining"
    /\ UNCHANGED <<pcVars, dinerVars, brewerVars, mainVars, TerminationRequested,
                   spawn_i, producer_id, consumer_id>>

\* pthread_create(&producers[i], NULL, produce, (void *) &i)
SpawnProducersCreate ==
    /\ spawn_pc = "producers_create"
    /\ producer_pc' = [producer_pc EXCEPT ![spawn_i + 1] = "start"]
    /\ spawn_pc' = "producers_incr"
    /\ UNCHANGED <<queueState, consumer_pc, dinerVars, brewerVars, mainVars,
                   TerminationRequested, spawn_i, producer_id, consumer_id>>

\* i++
SpawnProducersIncr ==
    /\ spawn_pc = "producers_incr"
    /\ spawn_i' = spawn_i + 1
    /\ spawn_pc' = "producers_test"
    /\ UNCHANGED <<pcVars, dinerVars, brewerVars, mainVars, TerminationRequested,
                   producer_id, consumer_id>>

\* The dereference of id in a thread created by the loop whose positions are `loop`:
\* the current value of i while that loop runs, a dangling read after it.
deref_id(loop) == IF spawn_pc \in loop THEN {spawn_i} ELSE DanglingValues

\* consume(): my_id is read through id.
ConsumerStart(c) ==
    /\ consumer_pc[c] = "start"
    /\ \E v \in deref_id({"consumers_test", "consumers_create", "consumers_incr"}) :
        consumer_id' = [consumer_id EXCEPT ![c] = v]
    /\ consumer_pc' = [consumer_pc EXCEPT ![c] = "loop"]
    /\ UNCHANGED <<queueState, producer_pc, dinerVars, brewerVars, mainVars,
                   TerminationRequested, spawn_pc, spawn_i, producer_id>>

\* produce(): my_id is read through id.
ProducerStart(p) ==
    /\ producer_pc[p] = "start"
    /\ \E v \in deref_id({"producers_test", "producers_create", "producers_incr"}) :
        producer_id' = [producer_id EXCEPT ![p] = v]
    /\ producer_pc' = [producer_pc EXCEPT ![p] = "loop"]
    /\ UNCHANGED <<queueState, consumer_pc, dinerVars, brewerVars, mainVars,
                   TerminationRequested, spawn_pc, spawn_i, consumer_id>>

\* run_prodcon is entered: no thread exists yet, int i = 0 of the first loop.
run_prodcon_entry ==
    /\ ProducerCount \in 1..MaxProducers
    /\ ConsumerCount \in 1..MaxConsumers
    /\ PCQueue = [i \in 0..QUEUE_END |-> 0]
    /\ Q_Head = 0
    /\ Q_Tail = 0
    /\ Count = 0
    /\ Mutex = NoThread
    /\ TerminationRequested = 0
    /\ producer_pc = [p \in Producers |-> "unborn"]
    /\ consumer_pc = [c \in Consumers |-> "unborn"]
    /\ pushed = <<>>
    /\ popped = <<>>
    /\ lastIndex = 0
    /\ spawn_pc = "consumers_test"
    /\ spawn_i = 0
    /\ producer_id = [p \in Producers |-> NoId]
    /\ consumer_id = [c \in Consumers |-> NoId]
    /\ DinersIdle
    /\ BrewersIdle
    /\ MainDispatched("ProdCon")

NextSpawn ==
    \/ SpawnConsumersTest
    \/ SpawnConsumersCreate
    \/ SpawnConsumersIncr
    \/ SpawnProducersTest
    \/ SpawnProducersCreate
    \/ SpawnProducersIncr
    \/ \E c \in Consumers : ConsumerStart(c)
    \/ \E p \in Producers : ProducerStart(p)

SpecSpawn == run_prodcon_entry /\ [][NextSpawn]_vars

\* C17: the my_id a producer has read is the loop index at which it was
\* spawned (slot p is spawned at index p - 1), hence distinct from every other
\* producer's; likewise for consumers.
C17_IdIsSpawnIndex ==
    /\ \A p \in Producers : producer_id[p] # NoId => producer_id[p] = p - 1
    /\ \A c \in Consumers : consumer_id[c] # NoId => consumer_id[c] = c - 1

(***************************************************************************)
(* main() and parse_command_line()                                         *)
(***************************************************************************)
\* The command-line words of the model.  A word that starts with '-' is an
\* option to getopt, unless it is taken as the value of -n or -c.
OptionWords == {"-d", "-b", "-p", "-n", "-c", "-x", "-1"}
Words == OptionWords \cup {"1", "0"}

\* argv[1..argc-1]
CommandLines == UNION {[1..n -> Words] : n \in 0..MaxArgs}

\* atoi: the leading decimal number of the word, 0 when there is none.
atoi(word) ==
    CASE word = "1" -> 1
      [] word = "-1" -> -1
      [] OTHER -> 0

\* getopt permutes argv: the words that are not options are passed over.
\* The index of the next option at or after optind, 0 when there is none.
next_option ==
    LET found == {j \in optind..Len(argv) : argv[j] \in OptionWords}
    IN  IF found = {} THEN 0 ELSE CHOOSE j \in found : \A k \in found : j <= k

\* The Producer/Consumer globals other than the two counts.
queueOnly == <<PCQueue, Q_Head, Q_Tail, Count, Mutex, producer_pc, consumer_pc,
               pushed, popped, lastIndex>>

\* main up to the call of parse_command_line: ProblemType = None, and with no
\* argument the help is printed and main returns -1.
MainStart ==
    /\ main_pc = "main"
    /\ ProblemType' = "None"
    /\ IF Len(argv) = 0
       THEN main_pc' = "exited" /\ exit_status' = -1
       ELSE main_pc' = "getopt" /\ UNCHANGED exit_status
    /\ UNCHANGED <<pcVars, dinerVars, brewerVars, spawnVars, TerminationRequested,
                   argv, optind, getopt_reported, ran>>

\* getopt returns 'd', 'b' or 'p'.
GetoptMode ==
    /\ main_pc = "getopt"
    /\ next_option # 0
    /\ argv[next_option] \in {"-d", "-b", "-p"}
    /\ ProblemType' = CASE argv[next_option] = "-d" -> "Diners"
                        [] argv[next_option] = "-b" -> "Brewers"
                        [] argv[next_option] = "-p" -> "ProdCon"
    /\ optind' = next_option + 1
    /\ UNCHANGED <<pcVars, dinerVars, brewerVars, spawnVars, TerminationRequested,
                   argv, main_pc, getopt_reported, ran, exit_status>>

\* getopt returns 'n' or 'c' with optarg, the next word whatever it is.
GetoptCount ==
    /\ main_pc = "getopt"
    /\ next_option # 0
    /\ argv[next_option] \in {"-n", "-c"}
    /\ next_option < Len(argv)
    /\ IF argv[next_option] = "-n"
       THEN ProducerCount' = atoi(argv[next_option + 1]) /\ UNCHANGED ConsumerCount
       ELSE ConsumerCount' = atoi(argv[next_option + 1]) /\ UNCHANGED ProducerCount
    /\ optind' = next_option + 2
    /\ UNCHANGED <<queueOnly, dinerVars, brewerVars, spawnVars, TerminationRequested,
                   argv, ProblemType, main_pc, getopt_reported, ran, exit_status>>

\* -n or -c is the last word: getopt returns '?' with optopt 'n' or 'c'; the
\* message is printed and the loop goes on.
GetoptMissingValue ==
    /\ main_pc = "getopt"
    /\ next_option # 0
    /\ argv[next_option] \in {"-n", "-c"}
    /\ next_option = Len(argv)
    /\ getopt_reported' = getopt_reported \cup {"missing value"}
    /\ optind' = next_option + 1
    /\ UNCHANGED <<pcVars, dinerVars, brewerVars, spawnVars, TerminationRequested,
                   argv, ProblemType, main_pc, ran, exit_status>>

\* Any other option: getopt returns '?'; ProblemType = None and
\* parse_command_line returns at once.
GetoptUnknown ==
    /\ main_pc = "getopt"
    /\ next_option # 0
    /\ argv[next_option] \notin {"-d", "-b", "-p", "-n", "-c"}
    /\ getopt_reported' = getopt_reported \cup {"unknown option"}
    /\ optind' = next_option + 1
    /\ ProblemType' = "None"
    /\ main_pc' = "dispatch"
    /\ UNCHANGED <<pcVars, dinerVars, brewerVars, spawnVars, TerminationRequested,
                   argv, ran, exit_status>>

\* getopt returns -1, and the check that follows the loop.
GetoptEnd ==
    /\ main_pc = "getopt"
    /\ next_option = 0
    /\ ProblemType' =
        IF ProblemType = "ProdCon" /\ (ProducerCount = 0 \/ ConsumerCount = 0)
        THEN "None" ELSE ProblemType
    /\ main_pc' = "dispatch"
    /\ UNCHANGED <<pcVars, dinerVars, brewerVars, spawnVars, TerminationRequested,
                   argv, optind, getopt_reported, ran, exit_status>>

\* switch (ProblemType): the run_* function called, if any.
MainDispatch ==
    /\ main_pc = "dispatch"
    /\ ran' = IF ProblemType = "None" THEN "nothing" ELSE ProblemType
    /\ main_pc' = "return"
    /\ UNCHANGED <<pcVars, dinerVars, brewerVars, spawnVars, TerminationRequested,
                   argv, optind, ProblemType, getopt_reported, exit_status>>

\* return ProblemType == None ? -1 : 0;
MainReturn ==
    /\ main_pc = "return"
    /\ exit_status' = IF ProblemType = "None" THEN -1 ELSE 0
    /\ main_pc' = "exited"
    /\ UNCHANGED <<pcVars, dinerVars, brewerVars, spawnVars, TerminationRequested,
                   argv, optind, ProblemType, getopt_reported, ran>>

\* The process is started with some command line.
main ==
    /\ argv \in CommandLines
    /\ optind = 1
    /\ ProblemType = "None"
    /\ main_pc = "main"
    /\ getopt_reported = {}
    /\ ran = "nothing"
    /\ exit_status = 0
    /\ TerminationRequested = 0
    /\ ProdConIdle
    /\ DinersIdle
    /\ BrewersIdle
    /\ SpawnIdle

NextMain ==
    \/ MainStart
    \/ GetoptMode
    \/ GetoptCount
    \/ GetoptMissingValue
    \/ GetoptUnknown
    \/ GetoptEnd
    \/ MainDispatch
    \/ MainReturn

SpecMain == main /\ [][NextMain]_vars

\* C18: run_prodcon is called, and threads start, only with a producer count
\* and a consumer count both greater than 0; with any other counts no model
\* is run, ProblemType is None and main returns non-zero.
C18_ProdConNeedsPositiveCounts ==
    /\ ran = "ProdCon" => (ProducerCount > 0 /\ ConsumerCount > 0)
    /\ (main_pc = "exited" /\ ~(ProducerCount > 0 /\ ConsumerCount > 0)) =>
            (ran # "ProdCon" /\ (ran = "nothing" => (ProblemType = "None" /\ exit_status # 0)))

\* C19: once getopt has reported an unknown option or a missing value,
\* main ends with ProblemType = None, no model run and a non-zero status.
C19_BadOptionRejected ==
    (main_pc = "exited" /\ getopt_reported # {}) =>
        (ProblemType = "None" /\ ran = "nothing" /\ exit_status # 0)

====
